---- MODULE Spec2Model ----
(***************************************************************************)
(* A model of the two flows of the repository:                             *)
(*   - the inference wrapper YOLOv11Det (src/yolov11_det/yolov11_det.py),  *)
(*     driven as in src/main.py: one construction, then one predict call;  *)
(*   - the packaging script build.py: its file-system operations and the   *)
(*     pipeline main() that sequences them.                                *)
(* The detection engine, the Cython build and the packaging tool are       *)
(* external: their answers are nondeterministic inputs of the actions.     *)
(***************************************************************************)
EXTENDS Integers, Sequences, FiniteSets, TLC

VARIABLES
    \* ---- inference wrapper ----
    dpc,          \* position: "new", "checked", "device", "ready", "returned", "raised"
    weightExists, \* whether the weight file exists on disk
    device,       \* self.device ("none" until selected)
    model,        \* self.model ("none" until loaded)
    derr,         \* the exception that ended the flow ("none" if none)
    outDir,       \* the output directory: [exists, files: name -> image]
    results,      \* what the engine returned to the predict call
    ret,          \* what predict returned
    saveImg,      \* the save_img argument of the predict call
    \* ---- build script ----
    pc,           \* the stage main() is about to run, or "done", "failed", "idle", "ops"
    ws,           \* the workspace: [dirs, files], sets of paths
    wsBefore,     \* the workspace as the stage or operation run last found it
    presetData,   \* pyproject.toml already defines tool.setuptools.package-data
    meta,         \* what write_obf_pyproject wrote to build/pyproject.toml
    run,          \* which run of the pipeline this is
    trace,        \* the stages this run has executed, in order
    err,          \* the exception that ended this run or the last call ("none" if none)
    toolExit,     \* exit codes of the subprocesses of this run (-1: not invoked)
    prevArt,      \* the artifact set of the previous run
    lastOp        \* the operation called last (operations called one by one)

detVars   == <<dpc, weightExists, device, model, derr, outDir, results, ret, saveImg>>
buildVars == <<pc, ws, wsBefore, presetData, meta, run, trace, err, toolExit, prevArt, lastOp>>
vars      == <<dpc, weightExists, device, model, derr, outDir, results, ret, saveImg,
               pc, ws, wsBefore, presetData, meta, run, trace, err, toolExit, prevArt, lastOp>>

(***************************************************************************)
(* Bounds of the model.                                                    *)
(***************************************************************************)
MaxFrames == 3
MaxRuns == 2

(***************************************************************************)
(*                        THE INFERENCE WRAPPER                            *)
(***************************************************************************)

\* A frame's path is <<directory, stem, extension>>; NoPath is a falsy r.path
\* (None or the empty string).
NoPath == <<>>
FramePaths == {NoPath, <<"d1", "a", "jpg">>, <<"d2", "a", "jpg">>}

\* A box as the engine gives it: one-row tensors.
Box1 == [xyxy |-> << <<1, 2, 3, 4>> >>, cls |-> <<0>>, conf |-> <<90>>]
Box2 == [xyxy |-> << <<5, 5, 9, 9>> >>, cls |-> <<7>>, conf |-> <<30>>]
\* r.boxes: None, no box, or boxes.
FrameBoxes == {[present |-> FALSE, items |-> <<>>],
               [present |-> TRUE, items |-> <<>>],
               [present |-> TRUE, items |-> <<Box1, Box2>>]}
FrameKinds == [path : FramePaths, boxes : FrameBoxes]

\* Path(r.path).stem
Stem(p) == p[2]

PadWidth == 8
\* f"{idx:08d}": the decimal digits of idx, zero-padded to eight.
Pad8(idx) == [k \in 1..PadWidth |-> (idx \div (10 ^ (PadWidth - k))) % 10]

\* str(idx): the decimal digits of idx without padding.
RECURSIVE Dec(_)
Dec(n) == IF n < 10 THEN <<n>> ELSE Append(Dec(n \div 10), n % 10)

\* The file name a frame is saved under.
SaveName(r, idx) ==
    IF r.path # NoPath
    THEN [prefix |-> "", stem |-> Stem(r.path), digits |-> <<>>, suffix |-> "_pred.jpg"]
    ELSE [prefix |-> "frame_", stem |-> "", digits |-> Pad8(idx), suffix |-> ".jpg"]

\* str(r.path or idx)
SourceStrIdx(r, idx) == [path |-> NoPath, digits |-> Dec(idx)]
SourceStr(r, idx) ==
    IF r.path # NoPath
    THEN [path |-> r.path, digits |-> <<>>]
    ELSE [path |-> NoPath, digits |-> Dec(idx)]

\* One detection record from one box.
Det(box) == [xyxy |-> box.xyxy[1], cls |-> box.cls[1], conf |-> box.conf[1]]

\* The detection list of a frame.
FrameDets(r) ==
    IF r.boxes.present
    THEN [i \in 1..Len(r.boxes.items) |-> Det(r.boxes.items[i])]
    ELSE <<>>

\* r.plot(): the annotated image of the frame.
Plot(r) == r.img

\* out_dir.mkdir(parents=True, exist_ok=True), done only when saving.
MkOutDirAlways(save, d) == [d EXCEPT !.exists = TRUE]
MkOutDir(save, d) == IF save THEN [d EXCEPT !.exists = TRUE] ELSE d

\* cv2.imwrite: writes or overwrites; returns False (no exception) when the
\* directory does not exist.
ImWrite(d, name, img) ==
    IF d.exists
    THEN [d EXCEPT !.files = [n \in DOMAIN d.files \cup {name} |->
                                 IF n = name THEN img ELSE d.files[n]]]
    ELSE d

\* The loop of predict over enumerate(results), from index idx on.
RECURSIVE PredictLoop(_, _, _, _, _)
PredictLoop(rs, idx, save, d, acc) ==
    IF idx >= Len(rs)
    THEN [out |-> d, dets |-> acc]
    ELSE LET r  == rs[idx + 1]
             d2 == IF save THEN ImWrite(d, SaveName(r, idx), Plot(r)) ELSE d
         IN PredictLoop(rs, idx + 1, save, d2,
                Append(acc, [source |-> SourceStr(r, idx), detections |-> FrameDets(r)]))

\* An image left in the output directory by an earlier program.
StaleImage == 0 - 1
InitOutDirs ==
    {[exists |-> FALSE, files |-> <<>>],
     [exists |-> TRUE, files |-> <<>>],
     [exists |-> TRUE,
      files |-> [n \in {[prefix |-> "", stem |-> "a", digits |-> <<>>,
                         suffix |-> "_pred.jpg"]} |-> StaleImage]]}

DetInit ==
    /\ dpc = "new"
    /\ weightExists \in BOOLEAN
    /\ device = "none"
    /\ model = "none"
    /\ derr = "none"
    /\ outDir \in InitOutDirs
    /\ results = <<>>
    /\ ret = <<>>
    /\ saveImg = FALSE

\* __init__, the existence test of the weight file.
InitCheckSkipped ==
    /\ dpc = "new"
    /\ dpc' = "checked"
    /\ UNCHANGED <<weightExists, device, model, derr, outDir, results, ret, saveImg>>
InitCheck ==
    /\ dpc = "new"
    /\ IF weightExists
       THEN dpc' = "checked" /\ derr' = derr
       ELSE dpc' = "raised" /\ derr' = "FileNotFoundError"
    /\ UNCHANGED <<weightExists, device, model, outDir, results, ret, saveImg>>

\* __init__, the device selection: the argument, else cuda:0 when available, else cpu.
InitDevice ==
    /\ dpc = "checked"
    /\ \E arg \in {"", "cpu"}, cuda \in BOOLEAN :
          device' = IF arg # "" THEN arg ELSE IF cuda THEN "cuda:0" ELSE "cpu"
    /\ dpc' = "device"
    /\ UNCHANGED <<weightExists, model, derr, outDir, results, ret, saveImg>>

\* __init__, the model load; the engine may raise.
InitLoad ==
    /\ dpc = "device"
    /\ \E ok \in BOOLEAN :
          IF ok
          THEN model' = "loaded" /\ dpc' = "ready" /\ derr' = derr
          ELSE model' = model /\ dpc' = "raised" /\ derr' = "EngineError"
    /\ UNCHANGED <<weightExists, device, outDir, results, ret, saveImg>>

\* predict, the engine returning its frames.
Predict ==
    /\ dpc = "ready"
    /\ \E save \in BOOLEAN, n \in 0..MaxFrames :
         \E fr \in [1..n -> FrameKinds] :
            LET rs  == [i \in 1..n |-> [path |-> fr[i].path, boxes |-> fr[i].boxes,
                                        img |-> i - 1]]
                d1  == MkOutDir(save, outDir)
                res == PredictLoop(rs, 0, save, d1, <<>>)
            IN /\ saveImg' = save
               /\ results' = rs
               /\ ret' = res.dets
               /\ outDir' = res.out
    /\ dpc' = "returned"
    /\ UNCHANGED <<weightExists, device, model, derr>>

\* predict, the engine raising: the error propagates untranslated.
PredictRaises ==
    /\ dpc = "ready"
    /\ \E save \in BOOLEAN :
          /\ saveImg' = save
          /\ outDir' = MkOutDir(save, outDir)
    /\ dpc' = "raised"
    /\ derr' = "EngineError"
    /\ UNCHANGED <<weightExists, device, model, results, ret>>

(***************************************************************************)
(*                            THE BUILD SCRIPT                             *)
(***************************************************************************)

\* A file or directory name is <<stem, suffix>>; a path is a sequence of
\* names, relative to the working directory.  The workspace is
\* [dirs, files], two sets of paths.
D(s) == <<s, "">>
SRC   == <<D("src")>>
WORK  == <<D("build"), D("pkg")>>
OBF   == <<D("build"), D("obf")>>
BUILD == <<D("build")>>
DIST  == <<D("dist")>>

InitPy    == <<"__init__", "py">>
PyCache   == D("__pycache__")
PyProject == << <<"pyproject", "toml">> >>
Readme    == << <<"README", "md">> >>

Last(p) == p[Len(p)]
Suffix(p) == Last(p)[2]
Parent(p) == SubSeq(p, 1, Len(p) - 1)
Ancestors(p) == {SubSeq(p, 1, k) : k \in 1..(Len(p) - 1)}
\* p is q or an ancestor of q
IsPrefix(p, q) == Len(p) <= Len(q) /\ SubSeq(q, 1, Len(p)) = p
\* q lies strictly under p
Inside(p, q) == Len(p) < Len(q) /\ SubSeq(q, 1, Len(p)) = p
\* q, which lies under from, moved under to
Rebase(q, from, to) == to \o SubSeq(q, Len(from) + 1, Len(q))
WithSuffix(p, e) == [p EXCEPT ![Len(p)] = <<@[1], e>>]

\* shutil.rmtree(p, ignore_errors=True): removes the directory p and all
\* under it; anything else (p absent, p a file) is ignored.
RmTreeStrict(fs, p) ==
    [fs |-> IF p \in fs.dirs
            THEN [dirs  |-> {d \in fs.dirs : ~IsPrefix(p, d)},
                  files |-> {f \in fs.files : ~IsPrefix(p, f)}]
            ELSE fs,
     ok |-> p \in fs.dirs]
RmTreeIfEmpty(fs, p) ==
    [fs |-> IF p \in fs.dirs /\ ~\E q \in fs.dirs \cup fs.files : Inside(p, q)
            THEN [dirs |-> fs.dirs \ {p}, files |-> fs.files]
            ELSE fs,
     ok |-> TRUE]
RmTree(fs, p) ==
    [fs |-> IF p \in fs.dirs
            THEN [dirs  |-> {d \in fs.dirs : ~IsPrefix(p, d)},
                  files |-> {f \in fs.files : ~IsPrefix(p, f)}]
            ELSE fs,
     ok |-> TRUE]

\* rmtree over a sequence of paths, stopping at the first that raises.
RECURSIVE RmTreeSeq(_, _)
RmTreeSeq(fs, ps) ==
    IF ps = <<>>
    THEN [fs |-> fs, ok |-> TRUE]
    ELSE LET r == RmTree(fs, Head(ps))
         IN IF r.ok THEN RmTreeSeq(r.fs, Tail(ps)) ELSE r

\* rmtree over the paths a directory walk found.
RECURSIVE RmTreeSet(_, _)
RmTreeSet(fs, S) ==
    IF S = {}
    THEN [fs |-> fs, ok |-> TRUE]
    ELSE LET p == CHOOSE x \in S : \A y \in S : Len(x) <= Len(y)
             r == RmTree(fs, p)
         IN IF r.ok THEN RmTreeSet(r.fs, S \ {p}) ELSE r

\* Path.unlink(missing_ok=...)
Unlink(fs, f, missingOk) ==
    IF f \in fs.files
    THEN [fs |-> [dirs |-> fs.dirs, files |-> fs.files \ {f}], ok |-> TRUE]
    ELSE [fs |-> fs, ok |-> missingOk]

RECURSIVE UnlinkSet(_, _, _)
UnlinkSet(fs, S, missingOk) ==
    IF S = {}
    THEN [fs |-> fs, ok |-> TRUE]
    ELSE LET f == CHOOSE x \in S : TRUE
             r == Unlink(fs, f, missingOk)
         IN IF r.ok THEN UnlinkSet(r.fs, S \ {f}, missingOk) ELSE r

\* shutil.copytree(from, to, dirs_exist_ok=existOk)
CopyTree(fs, from, to, existOk) ==
    IF from \notin fs.dirs
    THEN [fs |-> fs, err |-> "FileNotFoundError"]
    ELSE IF ~existOk /\ to \in fs.dirs \cup fs.files
    THEN [fs |-> fs, err |-> "FileExistsError"]
    ELSE [fs |-> [dirs  |-> fs.dirs \cup Ancestors(to)
                            \cup {Rebase(d, from, to) : d \in {x \in fs.dirs : IsPrefix(from, x)}},
                  files |-> fs.files
                            \cup {Rebase(f, from, to) : f \in {x \in fs.files : Inside(from, x)}}],
          err |-> "none"]

\* clean(): build, dist and "*.egg-info" (the literal name: rmtree expands
\* no pattern), then the __pycache__ directories and .pyc files under src.
clean(fs) ==
    LET r1 == RmTreeSeq(fs, << <<D("build")>>, <<D("dist")>>, << <<"*", "egg-info">> >> >>)
    IN IF ~r1.ok
       THEN [fs |-> r1.fs, err |-> "FileNotFoundError"]
       ELSE LET caches == {d \in r1.fs.dirs : Inside(SRC, d) /\ Last(d) = PyCache}
                r2     == RmTreeSet(r1.fs, caches)
                pycs   == {f \in r2.fs.files : Inside(SRC, f) /\ Suffix(f) = "pyc"}
                r3     == UnlinkSet(r2.fs, pycs, FALSE)
            IN [fs  |-> r3.fs,
                err |-> IF r2.ok /\ r3.ok THEN "none" ELSE "FileNotFoundError"]

\* copy_source(): src copied to a fresh build/pkg.
copy_source(fs) ==
    LET r == RmTree(fs, WORK)
    IN IF ~r.ok
       THEN [fs |-> r.fs, err |-> "FileNotFoundError"]
       ELSE CopyTree(r.fs, SRC, WORK, FALSE)

\* What "setup_cython.py build_ext --inplace" leaves in build/pkg when it
\* succeeds: beside every .py under a first-level package its .c and its
\* extension module, and the object files under build/pkg/build.
BuildExt(fs, packages) ==
    LET srcs == {f \in fs.files : Suffix(f) = "py" /\ \E p \in packages : Inside(p, f)}
        temp == WORK \o <<D("build"), D("temp")>>
        objs == {Rebase(WithSuffix(f, "o"), WORK, temp) : f \in srcs}
    IN [dirs  |-> fs.dirs \cup UNION {Ancestors(o) : o \in objs},
        files |-> fs.files \cup {WithSuffix(f, "c") : f \in srcs}
                           \cup {WithSuffix(f, "so") : f \in srcs}
                           \cup objs]

\* compile_so(): the first-level packages of build/pkg are compiled in
\* place; exit is the exit code of the subprocess.
compile_so_unchecked(fs, exit) ==
    IF WORK \notin fs.dirs
    THEN [fs |-> fs, err |-> "FileNotFoundError", exit |-> 0 - 1]
    ELSE LET packages == {p \in fs.dirs : Parent(p) = WORK
                                          /\ (p \o <<InitPy>>) \in fs.files \cup fs.dirs}
             setup_py == WORK \o << <<"setup_cython", "py">> >>
             fs1      == [dirs |-> fs.dirs, files |-> fs.files \cup {setup_py}]
         IN IF packages = {}
            THEN [fs |-> fs, err |-> "RuntimeError", exit |-> 0 - 1]
            ELSE [fs |-> Unlink(IF exit = 0 THEN BuildExt(fs1, packages) ELSE fs1,
                                setup_py, TRUE).fs,
                  err |-> "none", exit |-> exit]
compile_so(fs, exit) ==
    IF WORK \notin fs.dirs
    THEN [fs |-> fs, err |-> "FileNotFoundError", exit |-> 0 - 1]
    ELSE LET packages == {p \in fs.dirs : Parent(p) = WORK
                                          /\ (p \o <<InitPy>>) \in fs.files \cup fs.dirs}
             setup_py == WORK \o << <<"setup_cython", "py">> >>
             fs1      == [dirs |-> fs.dirs, files |-> fs.files \cup {setup_py}]
         IN IF packages = {}
            THEN [fs |-> fs, err |-> "RuntimeError", exit |-> 0 - 1]
            ELSE IF exit # 0
            THEN [fs |-> fs1, err |-> "CalledProcessError", exit |-> exit]
            ELSE [fs |-> Unlink(BuildExt(fs1, packages), setup_py, TRUE).fs,
                  err |-> "none", exit |-> exit]

\* copytree(pkg, build/obf/<pkg.name>, dirs_exist_ok=True) for each pkg found.
RECURSIVE CopyPackages(_, _)
CopyPackages(fs, pkgs) ==
    IF pkgs = {}
    THEN [fs |-> fs, err |-> "none"]
    ELSE LET pkg == CHOOSE x \in pkgs : TRUE
             r   == CopyTree(fs, pkg, OBF \o <<Last(pkg)>>, TRUE)
         IN IF r.err = "none" THEN CopyPackages(r.fs, pkgs \ {pkg}) ELSE r

\* move_to_obf(): every first-level directory of build/pkg copied to a
\* fresh build/obf.
move_to_obf(fs) ==
    LET r == RmTree(fs, OBF)
    IN IF ~r.ok
       THEN [fs |-> r.fs, err |-> "FileNotFoundError"]
       ELSE LET fs1 == [dirs  |-> r.fs.dirs \cup {OBF} \cup Ancestors(OBF),
                        files |-> r.fs.files]
            IN IF WORK \notin fs1.dirs
               THEN [fs |-> fs1, err |-> "FileNotFoundError"]
               ELSE CopyPackages(fs1, {p \in fs1.dirs : Parent(p) = WORK})

\* trim_obf(): the .py and .c files under build/obf are deleted, except
\* files named __init__.py.
trim_obf_py_only(fs) ==
    LET gone == {f \in fs.files : Inside(OBF, f) /\ Suffix(f) = "py" /\ Last(f) # InitPy}
        r    == UnlinkSet(fs, gone, TRUE)
    IN [fs |-> r.fs, err |-> IF r.ok THEN "none" ELSE "FileNotFoundError"]
trim_obf(fs) ==
    LET gone == {f \in fs.files : Inside(OBF, f) /\ Suffix(f) \in {"py", "c"}
                                  /\ Last(f) # InitPy}
        r    == UnlinkSet(fs, gone, TRUE)
    IN [fs |-> r.fs, err |-> IF r.ok THEN "none" ELSE "FileNotFoundError"]

\* cleanup_egginfo(): every *.egg-info under build/pkg and build/obf.
cleanup_egginfo(fs) ==
    LET eggs == {e \in fs.dirs \cup fs.files :
                    (Inside(WORK, e) \/ Inside(OBF, e)) /\ Suffix(e) = "egg-info"}
        r    == RmTreeSet(fs, eggs)
    IN [fs |-> r.fs, err |-> IF r.ok THEN "none" ELSE "FileNotFoundError"]

\* purge_build_artifacts(): build/obf/build, the .c and .o files under
\* build/obf, and build/pkg.
purge_build_artifacts(fs) ==
    LET r1   == RmTree(fs, OBF \o <<D("build")>>)
        gone == {f \in r1.fs.files : Inside(OBF, f) /\ Suffix(f) \in {"c", "o"}}
        r2   == UnlinkSet(r1.fs, gone, TRUE)
        r3   == RmTree(r2.fs, WORK)
    IN [fs |-> r3.fs, err |-> IF r1.ok /\ r2.ok /\ r3.ok THEN "none" ELSE "FileNotFoundError"]

NoMeta == [written |-> FALSE, packages |-> {}, data |-> {}]
\* The package-data table a pyproject.toml may already define.
PresetData == {<< <<"legacy">>, <<"*", "so">> >>}

\* The dotted package name of a directory of build/obf, as a sequence of
\* its dot-separated parts: a dot in a directory name separates parts too.
RECURSIVE Dotted(_)
Dotted(rel) ==
    IF rel = <<>>
    THEN <<>>
    ELSE (IF Head(rel)[2] = "" THEN <<Head(rel)[1]>> ELSE <<Head(rel)[1], Head(rel)[2]>>)
         \o Dotted(Tail(rel))
\* OBF / pkg.replace('.', '/')
PkgPath(pkg) == OBF \o [i \in 1..Len(pkg) |-> D(pkg[i])]

\* setuptools.find_namespace_packages(where=build/obf): every directory.
FindNamespacePackages(fs) ==
    {Dotted(SubSeq(d, Len(OBF) + 1, Len(d))) : d \in {x \in fs.dirs : Inside(OBF, x)}}

\* write_obf_pyproject(): pyproject.toml and README.md copied to build/,
\* and the packages and their .so files written to build/pyproject.toml.
write_obf_pyproject(fs, preset) ==
    IF PyProject \notin fs.files \/ BUILD \notin fs.dirs
    THEN [fs |-> fs, err |-> "FileNotFoundError", meta |-> NoMeta]
    ELSE LET fs1 == [dirs |-> fs.dirs, files |-> fs.files \cup {BUILD \o PyProject}]
         IN IF Readme \notin fs.files
            THEN [fs |-> fs1, err |-> "FileNotFoundError", meta |-> NoMeta]
            ELSE LET fs2      == [dirs |-> fs1.dirs, files |-> fs1.files \cup {BUILD \o Readme}]
                     packages == FindNamespacePackages(fs2)
                     listed   == UNION {{<<pkg, Last(f)>> :
                                            f \in {x \in fs2.files :
                                                      /\ Suffix(x) = "so"
                                                      /\ Parent(x) = PkgPath(pkg)}} :
                                        pkg \in packages}
                 IN [fs |-> fs2, err |-> "none",
                     meta |-> [written  |-> TRUE,
                               packages |-> packages,
                               data     |-> IF preset THEN PresetData ELSE listed]]

\* uv_build(): "uv build --out-dir dist" run in build/; exit is its exit
\* code.  On success the wheel is in dist/ and the build back end has left
\* its egg-info directory in build/.
uv_build(fs, exit) ==
    IF BUILD \notin fs.dirs
    THEN [fs |-> fs, err |-> "FileNotFoundError", exit |-> 0 - 1]
    ELSE IF exit # 0
    THEN [fs |-> fs, err |-> "CalledProcessError", exit |-> exit]
    ELSE [fs |-> [dirs  |-> fs.dirs \cup {DIST, BUILD \o << <<"proj", "egg-info">> >>},
                  files |-> fs.files \cup {DIST \o << <<"proj", "whl">> >>}],
          err |-> "none", exit |-> exit]

(***************************************************************************)
(* main(): the stages in order; an exception ends the run.                 *)
(***************************************************************************)

\* The compiled modules under build/obf and what the metadata lists.
Artifacts(fs, m) ==
    [ok       |-> TRUE,
     so       |-> {f \in fs.files : Inside(OBF, f) /\ Suffix(f) = "so"},
     packages |-> m.packages,
     data     |-> m.data]
NoArtifacts == [ok |-> FALSE, so |-> {}, packages |-> {}, data |-> {}]

\* One stage of main() has run with result r; m is build/pyproject.toml's
\* content after it.
Advance(stage, next, r, m) ==
    /\ trace' = Append(trace, stage)
    /\ ws' = r.fs
    /\ wsBefore' = ws
    /\ err' = r.err
    /\ pc' = IF r.err = "none" THEN next ELSE "failed"
    /\ meta' = IF (BUILD \o PyProject) \in r.fs.files THEN m ELSE NoMeta
    /\ UNCHANGED <<presetData, run, prevArt, lastOp>>

main_clean ==
    /\ pc = "clean"
    /\ Advance("clean", "copy_source", clean(ws), meta)
    /\ UNCHANGED toolExit

main_copy_source ==
    /\ pc = "copy_source"
    /\ Advance("copy_source", "compile_so", copy_source(ws), meta)
    /\ UNCHANGED toolExit

main_compile_so ==
    /\ pc = "compile_so"
    /\ \E exit \in {0, 1} :
          LET r == compile_so(ws, exit)
          IN /\ Advance("compile_so", "move_to_obf", r, meta)
             /\ toolExit' = [toolExit EXCEPT !.cython = r.exit]

main_move_to_obf ==
    /\ pc = "move_to_obf"
    /\ Advance("move_to_obf", "trim_obf", move_to_obf(ws), meta)
    /\ UNCHANGED toolExit

main_trim_obf ==
    /\ pc = "trim_obf"
    /\ Advance("trim_obf", "cleanup_egginfo", trim_obf(ws), meta)
    /\ UNCHANGED toolExit

main_cleanup_egginfo ==
    /\ pc = "cleanup_egginfo"
    /\ Advance("cleanup_egginfo", "purge_build_artifacts", cleanup_egginfo(ws), meta)
    /\ UNCHANGED toolExit

main_purge_build_artifacts ==
    /\ pc = "purge_build_artifacts"
    /\ Advance("purge_build_artifacts", "write_obf_pyproject",
               purge_build_artifacts(ws), meta)
    /\ UNCHANGED toolExit

main_write_obf_pyproject ==
    /\ pc = "write_obf_pyproject"
    /\ LET r == write_obf_pyproject(ws, presetData)
       IN Advance("write_obf_pyproject", "uv_build", r, r.meta)
    /\ UNCHANGED toolExit

main_uv_build ==
    /\ pc = "uv_build"
    /\ \E exit \in {0, 1} :
          LET r == uv_build(ws, exit)
          IN /\ Advance("uv_build", "done", r, meta)
             /\ toolExit' = [toolExit EXCEPT !.uv = r.exit]

\* The script is started again on the workspace the last run left.
Rerun ==
    /\ pc \in {"done", "failed"}
    /\ run < MaxRuns
    /\ run' = run + 1
    /\ pc' = "clean"
    /\ trace' = <<>>
    /\ err' = "none"
    /\ toolExit' = [cython |-> 0 - 1, uv |-> 0 - 1]
    /\ prevArt' = IF pc = "done" THEN Artifacts(ws, meta) ELSE NoArtifacts
    /\ UNCHANGED <<ws, wsBefore, presetData, meta, lastOp>>

\* The workspace holding the files F and the directories Ds, with the
\* directories above them.
Workspace(F, Ds) ==
    [dirs  |-> Ds \cup UNION {Ancestors(p) : p \in F \cup Ds},
     files |-> F]

BuildFiles ==
    {SRC \o <<D("pkg"), InitPy>>,
     SRC \o <<D("pkg"), <<"a", "py">> >>,
     SRC \o <<D("pkg"), D("sub"), <<"c", "py">> >>,
     SRC \o <<D("util"), <<"b", "py">> >>,
     SRC \o <<D("pkg"), PyCache, <<"a", "pyc">> >>,
     SRC \o << <<"main", "py">> >>,
     OBF \o <<D("pkg"), <<"old", "so">> >>,
     DIST \o << <<"old", "whl">> >>,
     PyProject,
     Readme}
BuildDirs == {SRC, << <<"proj", "egg-info">> >>}

DetIdle ==
    /\ dpc = "idle"
    /\ weightExists = FALSE
    /\ device = "none"
    /\ model = "none"
    /\ derr = "none"
    /\ outDir = [exists |-> FALSE, files |-> <<>>]
    /\ results = <<>>
    /\ ret = <<>>
    /\ saveImg = FALSE

InitBuild ==
    /\ DetIdle
    /\ pc = "clean"
    /\ \E F \in SUBSET BuildFiles, Ds \in SUBSET BuildDirs : ws = Workspace(F, Ds)
    /\ wsBefore = ws
    /\ presetData \in (IF PyProject \in ws.files THEN BOOLEAN ELSE {FALSE})
    /\ meta = NoMeta
    /\ run = 1
    /\ trace = <<>>
    /\ err = "none"
    /\ toolExit = [cython |-> 0 - 1, uv |-> 0 - 1]
    /\ prevArt = NoArtifacts
    /\ lastOp = "none"

NextBuild ==
    \/ main_clean /\ UNCHANGED detVars
    \/ main_copy_source /\ UNCHANGED detVars
    \/ main_compile_so /\ UNCHANGED detVars
    \/ main_move_to_obf /\ UNCHANGED detVars
    \/ main_trim_obf /\ UNCHANGED detVars
    \/ main_cleanup_egginfo /\ UNCHANGED detVars
    \/ main_purge_build_artifacts /\ UNCHANGED detVars
    \/ main_write_obf_pyproject /\ UNCHANGED detVars
    \/ main_uv_build /\ UNCHANGED detVars
    \/ Rerun /\ UNCHANGED detVars
SpecBuild == InitBuild /\ [][NextBuild]_vars

(***************************************************************************)
(* The cleanup operations of build.py called one by one, in any order, on  *)
(* any workspace.                                                          *)
(***************************************************************************)
Call(op, r) ==
    /\ pc = "ops"
    /\ lastOp' = op
    /\ ws' = r.fs
    /\ wsBefore' = ws
    /\ err' = r.err
    /\ UNCHANGED <<pc, presetData, meta, run, trace, toolExit, prevArt>>

call_clean == Call("clean", clean(ws))
call_copy_source == Call("copy_source", copy_source(ws))
call_move_to_obf == Call("move_to_obf", move_to_obf(ws))
call_trim_obf == Call("trim_obf", trim_obf(ws))
call_cleanup_egginfo == Call("cleanup_egginfo", cleanup_egginfo(ws))
call_purge_build_artifacts == Call("purge_build_artifacts", purge_build_artifacts(ws))

OpsFiles ==
    {SRC \o <<D("pkg"), InitPy>>,
     SRC \o <<D("pkg"), PyCache, <<"a", "pyc">> >>,
     SRC \o <<D("pkg"), <<"b", "pyc">> >>,
     WORK \o <<D("pkg"), <<"a", "py">> >>,
     WORK \o << <<"setup_cython", "py">> >>,
     WORK \o <<D("build"), D("temp"), <<"a", "o">> >>,
     OBF \o <<D("pkg"), <<"a", "c">> >>,
     OBF \o <<D("pkg"), <<"a", "so">> >>,
     DIST \o << <<"old", "whl">> >>}
OpsDirs ==
    {WORK \o <<D("pkg"), <<"proj", "egg-info">> >>,
     << <<"proj", "egg-info">> >>}

InitOps ==
    /\ DetIdle
    /\ pc = "ops"
    /\ \E F \in SUBSET OpsFiles, Ds \in SUBSET OpsDirs : ws = Workspace(F, Ds)
    /\ wsBefore = ws
    /\ presetData = FALSE
    /\ meta = NoMeta
    /\ run = 1
    /\ trace = <<>>
    /\ err = "none"
    /\ toolExit = [cython |-> 0 - 1, uv |-> 0 - 1]
    /\ prevArt = NoArtifacts
    /\ lastOp = "none"

NextOps ==
    \/ call_clean /\ UNCHANGED detVars
    \/ call_copy_source /\ UNCHANGED detVars
    \/ call_move_to_obf /\ UNCHANGED detVars
    \/ call_trim_obf /\ UNCHANGED detVars
    \/ call_cleanup_egginfo /\ UNCHANGED detVars
    \/ call_purge_build_artifacts /\ UNCHANGED detVars
SpecOps == InitOps /\ [][NextOps]_vars

BuildIdle ==
    /\ pc = "idle"
    /\ ws = [dirs |-> {}, files |-> {}]
    /\ wsBefore = ws
    /\ presetData = FALSE
    /\ meta = NoMeta
    /\ run = 1
    /\ trace = <<>>
    /\ err = "none"
    /\ toolExit = [cython |-> 0 - 1, uv |-> 0 - 1]
    /\ prevArt = NoArtifacts
    /\ lastOp = "none"

InitDet == DetInit /\ BuildIdle
NextDet ==
    \/ InitCheck /\ UNCHANGED buildVars
    \/ InitDevice /\ UNCHANGED buildVars
    \/ InitLoad /\ UNCHANGED buildVars
    \/ Predict /\ UNCHANGED buildVars
    \/ PredictRaises /\ UNCHANGED buildVars
SpecDet == InitDet /\ [][NextDet]_vars

(***************************************************************************)
(* Claims about the inference wrapper (checked under SpecDet).             *)
(***************************************************************************)

\* C1: constructing with a weight path that does not exist always ends in
\* FileNotFoundError, and before the device is selected or the model loaded:
\* on that path the flow is either not started or has raised not-found, and
\* neither self.device nor self.model was ever set.
C1_NotFoundBeforeLoad ==
    ~weightExists =>
        /\ dpc \in {"new", "raised"}
        /\ (dpc = "raised" => derr = "FileNotFoundError")
        /\ device = "none"
        /\ model = "none"
C1_Witness == ~weightExists /\ dpc = "raised" /\ derr = "FileNotFoundError"

\* The source identifier and the detections the claim expects for the i-th
\* engine frame (i counted from 1, so its index is i - 1).
ExpectedSource(i) ==
    IF results[i].path # NoPath
    THEN [path |-> results[i].path, digits |-> <<>>]
    ELSE [path |-> NoPath, digits |-> <<i - 1>>]
ExpectedDetections(i, got) ==
    IF results[i].boxes.present
    THEN /\ Len(got) = Len(results[i].boxes.items)
         /\ \A j \in 1..Len(got) :
               /\ got[j].xyxy = results[i].boxes.items[j].xyxy[1]
               /\ got[j].cls = results[i].boxes.items[j].cls[1]
               /\ got[j].conf = results[i].boxes.items[j].conf[1]
    ELSE got = <<>>

\* C2: predict returns exactly one frame result per frame the engine
\* produced, in the engine's order: same length, and the i-th entry carries
\* the i-th frame's path (or its index when it has no path) and that frame's
\* detections, an empty list for a frame without boxes.
C2_OneResultPerFrame ==
    dpc = "returned" =>
        /\ Len(ret) = Len(results)
        /\ \A i \in 1..Len(results) :
              /\ ret[i].source = ExpectedSource(i)
              /\ ExpectedDetections(i, ret[i].detections)
C2_Witness ==
    /\ dpc = "returned"
    /\ Len(ret) >= 3
    /\ results[1].path # NoPath
    /\ results[2].path = NoPath
    /\ results[3].path = NoPath
    /\ results[1].boxes.items # <<>>
    /\ results[2].boxes = [present |-> TRUE, items |-> <<>>]
    /\ ~results[3].boxes.present

\* C3: a predict call with the save flag disabled leaves the output
\* directory as it was: it neither creates the directory nor writes a file,
\* whether the call returns or raises.
C3_NoSaveNoWrite ==
    [][(dpc = "ready" /\ ~saveImg') => outDir' = outDir]_vars
C3_Witness ==
    /\ dpc = "returned"
    /\ ~saveImg
    /\ Len(ret) >= 2
    /\ ~outDir.exists

\* The file name the claim expects for the i-th engine frame.
ExpectedName(i) ==
    IF results[i].path # NoPath
    THEN [prefix |-> "", stem |-> results[i].path[2], digits |-> <<>>,
          suffix |-> "_pred.jpg"]
    ELSE [prefix |-> "frame_", stem |-> "", digits |-> <<0, 0, 0, 0, 0, 0, 0, i - 1>>,
          suffix |-> ".jpg"]

\* C4: with saving enabled, when predict returns the output directory holds,
\* for every frame result returned, the annotated image of that frame under
\* <stem>_pred.jpg (a frame with a path) or frame_<8 digits>.jpg (without).
C4_EveryFrameSaved ==
    (dpc = "returned" /\ saveImg) =>
        \A i \in 1..Len(ret) :
            /\ ExpectedName(i) \in DOMAIN outDir.files
            /\ outDir.files[ExpectedName(i)] = results[i].img

(***************************************************************************)
(* Claims about the build pipeline (checked under SpecBuild).              *)
(***************************************************************************)

\* The order of the stages: clean, copy, compile, relocate, strip (three
\* functions), regenerate metadata, package.
ClaimedOrder ==
    <<"clean", "copy_source", "compile_so", "move_to_obf", "trim_obf",
      "cleanup_egginfo", "purge_build_artifacts", "write_obf_pyproject", "uv_build">>
Ran(stage) == \E i \in 1..Len(trace) : trace[i] = stage

C6_SameArtifacts ==
    (run >= 2 /\ prevArt.ok /\ pc \in {"done", "failed"}
     /\ toolExit.cython # 1 /\ toolExit.uv # 1) =>
        (pc = "done" /\ Artifacts(ws, meta) = prevArt)
C6_Witness ==
    /\ run = 2
    /\ pc = "done"
    /\ prevArt.ok
    /\ Cardinality(prevArt.so) >= 3
    /\ Cardinality(prevArt.packages) >= 3
    /\ prevArt.data # {}

\* C9: from the end of trim_obf until the packaging tool is invoked,
\* build/obf holds no .py and no .c file other than files named
\* __init__.py; once purge_build_artifacts has run, build/obf holds no .o
\* file and no build subdirectory, and build/pkg does not exist.
C9_Stripped ==
    /\ (Ran("trim_obf") /\ toolExit.uv = 0 - 1) =>
          \A f \in ws.files :
             (Inside(OBF, f) /\ Suffix(f) \in {"py", "c"}) => Last(f) = InitPy
    /\ Ran("purge_build_artifacts") =>
          /\ ~\E f \in ws.files : Inside(OBF, f) /\ Suffix(f) = "o"
          /\ (OBF \o <<D("build")>>) \notin ws.dirs
          /\ WORK \notin ws.dirs \cup ws.files
C9_Witness ==
    /\ pc = "write_obf_pyproject"
    /\ (OBF \o <<D("pkg"), InitPy>>) \in ws.files
    /\ (OBF \o <<D("pkg"), <<"a", "so">> >>) \in ws.files
    /\ (SRC \o <<D("util"), <<"b", "py">> >>) \in ws.files

\* C10: after a successful run, every .py module other than __init__.py
\* that lies in a subdirectory of src has its compiled extension in
\* build/obf at the same package location.
C10_NoModuleLost ==
    pc = "done" =>
        \A f \in ws.files :
            (Inside(SRC, f) /\ Len(f) > Len(SRC) + 1 /\ Suffix(f) = "py"
             /\ Last(f) # InitPy)
            => Rebase(WithSuffix(f, "so"), SRC, OBF) \in ws.files

(***************************************************************************)
(* Claims about the single operations (checked under SpecOps).             *)
(***************************************************************************)

\* What each cleanup operation deletes, in the workspace fs.
CleanTargets(fs) ==
    {p \in fs.dirs \cup fs.files :
        \/ p \in {<<D("build")>>, <<D("dist")>>, << <<"*", "egg-info">> >>}
        \/ (Inside(SRC, p) /\ p \in fs.dirs /\ Last(p) = PyCache)
        \/ (Inside(SRC, p) /\ p \in fs.files /\ Suffix(p) = "pyc")}
TrimTargets(fs) ==
    {f \in fs.files : Inside(OBF, f) /\ Suffix(f) \in {"py", "c"} /\ Last(f) # InitPy}
EggTargets(fs) ==
    {e \in fs.dirs \cup fs.files :
        (Inside(WORK, e) \/ Inside(OBF, e)) /\ Suffix(e) = "egg-info"}
PurgeTargets(fs) ==
    {p \in fs.dirs \cup fs.files :
        \/ IsPrefix(OBF \o <<D("build")>>, p)
        \/ IsPrefix(WORK, p)
        \/ (Inside(OBF, p) /\ p \in fs.files /\ Suffix(p) \in {"c", "o"})}
\* Nothing of before is gone in after, and all that is new lies in or above root.
OnlyAddsUnder(before, after, root) ==
    /\ before.files \subseteq after.files
    /\ before.dirs \subseteq after.dirs
    /\ \A q \in (after.files \ before.files) \cup (after.dirs \ before.dirs) :
          IsPrefix(root, q) \/ q \in Ancestors(root)

\* C7: every cleanup operation is a no-op when what it deletes is already
\* absent: it completes without error and leaves the workspace unchanged
\* (copy_source and move_to_obf, whose removal is their first step, then
\* only add under build/pkg and build/obf).
C7_AbsentTargetsNoOp ==
    /\ (lastOp = "clean" /\ CleanTargets(wsBefore) = {}) =>
          (err = "none" /\ ws = wsBefore)
    /\ (lastOp = "trim_obf" /\ TrimTargets(wsBefore) = {}) =>
          (err = "none" /\ ws = wsBefore)
    /\ (lastOp = "cleanup_egginfo" /\ EggTargets(wsBefore) = {}) =>
          (err = "none" /\ ws = wsBefore)
    /\ (lastOp = "purge_build_artifacts" /\ PurgeTargets(wsBefore) = {}) =>
          (err = "none" /\ ws = wsBefore)
    /\ (lastOp = "copy_source" /\ WORK \notin wsBefore.dirs \cup wsBefore.files
        /\ SRC \in wsBefore.dirs) =>
          (err = "none" /\ OnlyAddsUnder(wsBefore, ws, WORK))
    /\ (lastOp = "move_to_obf" /\ OBF \notin wsBefore.dirs \cup wsBefore.files
        /\ WORK \in wsBefore.dirs) =>
          (err = "none" /\ OnlyAddsUnder(wsBefore, ws, OBF))
C7_Witness ==
    /\ lastOp = "purge_build_artifacts"
    /\ PurgeTargets(wsBefore) = {}
    /\ (OBF \o <<D("pkg"), <<"a", "so">> >>) \in wsBefore.files
    /\ << <<"proj", "egg-info">> >> \in wsBefore.dirs

\* C8: after clean() returns the working directory holds no build
\* directory, no dist directory and no directory whose name ends in
\* .egg-info, and src holds no __pycache__ directory and no .pyc file.
C8_CleanRemovesAll ==
    (lastOp = "clean" /\ err = "none") =>
        /\ <<D("build")>> \notin ws.dirs
        /\ <<D("dist")>> \notin ws.dirs
        /\ ~\E d \in ws.dirs : Len(d) = 1 /\ Suffix(d) = "egg-info"
        /\ ~\E d \in ws.dirs : Inside(SRC, d) /\ Last(d) = PyCache
        /\ ~\E f \in ws.files : Inside(SRC, f) /\ Suffix(f) = "pyc"

====
